---- MODULE Spec2Model ----
(***************************************************************************)
(* A model of the typing-test session of main.go: the bubbletea Model      *)
(* (chars, words, inputs, current, quitting, time, stats), its             *)
(* constructor NewModel, its message handler Update and its end-of-session *)
(* routine Quit, together with the messages that the runtime has in flight *)
(* (the stopwatch's start and tick messages and the quit message).         *)
(*                                                                         *)
(* Go strings are modelled as sequences of one-character strings, so that  *)
(* strings.Contains, strings.Join, wordwrap.String and the byte-wise scan  *)
(* of Quit are computed the way the code computes them.  Slices and string *)
(* indices are 0-based as in the source: inputs is a function on           *)
(* 0..len-1 and CharAt(s, i) reads s[i].                                   *)
(***************************************************************************)
EXTENDS Integers, Sequences, FiniteSets, TLC

VARIABLES
    pc,            \* "running", "exited" (QuitMsg handled), or one of Panics
    chars,         \* Model.chars
    words,         \* Model.words
    inputs,        \* Model.inputs
    current,       \* Model.current
    quitting,      \* Model.quitting
    time,          \* Model.time, the stopwatch: [running, d]
    stats,         \* Model.stats
    startPending,  \* the command of time.Start() was returned: StartStopMsg in flight
    tickPending,   \* a TickMsg of the stopwatch is in flight
    quitPending,   \* tea.Quit was returned: a QuitMsg is in flight
    msg            \* the last message handled by Update (history)

vars == <<pc, chars, words, inputs, current, quitting, time, stats,
          startPending, tickPending, quitPending, msg>>

(***************************************************************************)
(* Bounds of the model.                                                    *)
(***************************************************************************)
MaxWords == 2
MaxWidth == 2
MaxTicks == 1

(***************************************************************************)
(* Program constants.                                                      *)
(***************************************************************************)
Neutral == -1
Good == 1
Bad == 0
ok_inputs ==
    <<" ", "a", "b", "c", "d", "e", "f", "g", "h", "i", "j", "k", "l", "m",
      "n", "o", "p", "q", "r", "s", "t", "u", "v", "w", "x", "y", "z">>
\* stopwatch.NewWithInterval(time.Millisecond): one tick is one millisecond
Interval == 1
MsPerSecond == 1000
MsPerMinute == 60000

Status == {Neutral, Good, Bad}

\* the key strings of tea.KeyMsg.String() used below
CtrlC == <<"c", "t", "r", "l", "+", "c">>
Esc == <<"e", "s", "c">>
Enter == <<"e", "n", "t", "e", "r">>

(***************************************************************************)
(* String helpers of the Go standard library, as the code uses them.       *)
(***************************************************************************)
\* s[i] of a Go string, 0-based
CharAt(s, i) == s[i + 1]

\* strings.Contains(s, substr): substr occurs in s as a contiguous substring
\* (the empty string occurs in every string)
Contains(s, substr) ==
    \E i \in 0..(Len(s) - Len(substr)) :
        SubSeq(s, i + 1, i + Len(substr)) = substr

\* strings.Join(ws, " ")
RECURSIVE Join(_)
Join(ws) ==
    IF Len(ws) = 0 THEN <<>>
    ELSE IF Len(ws) = 1 THEN ws[1]
    ELSE ws[1] \o <<" ">> \o Join(Tail(ws))

(***************************************************************************)
(* wordwrap.String(s, limit) of muesli/reflow, the writer NewModel calls:  *)
(* a word is buffered until it ends; the spaces before it are buffered     *)
(* too; when the buffered word would overflow the line and is shorter than *)
(* the limit, a line break is written and the buffered spaces are dropped. *)
(* Close() writes the last word; spaces still buffered then are dropped.   *)
(***************************************************************************)
WWInit == [buf |-> <<>>, space |-> <<>>, word |-> <<>>, lineLen |-> 0]

WWAddSpace(st) ==
    [st EXCEPT !.lineLen = @ + Len(st.space),
               !.buf = @ \o st.space,
               !.space = <<>>]

WWAddWord(st) ==
    IF Len(st.word) > 0
    THEN LET s == WWAddSpace(st)
         IN  [s EXCEPT !.lineLen = @ + Len(s.word),
                       !.buf = @ \o s.word,
                       !.word = <<>>]
    ELSE st

WWAddNewLine(st) ==
    [st EXCEPT !.buf = Append(@, "\n"), !.lineLen = 0, !.space = <<>>]

WWWriteRune(st, c, limit) ==
    IF c = "\n"
    THEN LET s == IF Len(st.word) = 0
                  THEN IF st.lineLen + Len(st.space) > limit
                       THEN [st EXCEPT !.lineLen = 0, !.space = <<>>]
                       ELSE [st EXCEPT !.buf = @ \o st.space, !.space = <<>>]
                  ELSE st
         IN  WWAddNewLine(WWAddWord(s))
    ELSE IF c = " "
    THEN LET s == WWAddWord(st)
         IN  [s EXCEPT !.space = Append(@, c)]
    ELSE IF c = "-"
    THEN LET s == WWAddWord(WWAddSpace(st))
         IN  [s EXCEPT !.buf = Append(@, c)]
    ELSE LET s == [st EXCEPT !.word = Append(@, c)]
         IN  IF /\ s.lineLen + Len(s.space) + Len(s.word) > limit
                /\ Len(s.word) < limit
             THEN WWAddNewLine(s)
             ELSE s

RECURSIVE WWWrite(_, _, _)
WWWrite(st, s, limit) ==
    IF Len(s) = 0 THEN st
    ELSE WWWrite(WWWriteRune(st, Head(s), limit), Tail(s), limit)

WordWrapString(s, limit) ==
    IF limit = 0 THEN s
    ELSE WWAddWord(WWWrite(WWInit, s, limit)).buf

(***************************************************************************)
(* fmt's %.Nf of the float64 num/den, in units of 1/scale (scale = 10^N):  *)
(* a division by zero gives NaN (0/0) or an infinity, which fmt prints as  *)
(* such; otherwise the quotient is rounded to the nearest unit.  The       *)
(* quotients of the model never lie halfway between two units.             *)
(***************************************************************************)
FormatFloat(num, den, scale) ==
    IF den = 0
    THEN IF num = 0 THEN [kind |-> "NaN", val |-> 0]
         ELSE IF num > 0 THEN [kind |-> "+Inf", val |-> 0]
         ELSE [kind |-> "-Inf", val |-> 0]
    ELSE [kind |-> "num", val |-> (2 * num * scale + den) \div (2 * den)]

(***************************************************************************)
(* The stopwatch (bubbles/stopwatch) as main.go uses it.  Start() and      *)
(* Stop() change nothing by themselves: each returns a command whose       *)
(* message, once handled by the stopwatch's Update, sets the running flag. *)
(***************************************************************************)
\* stopwatch.NewWithInterval(time.Millisecond)
NewStopwatch == [running |-> FALSE, d |-> 0]

\* m.time.Running()
Running(t) == t.running

\* m.time.Elapsed(), in milliseconds
Elapsed(t) == t.d

(***************************************************************************)
(* Quit's statistics.                                                      *)
(***************************************************************************)
\* the scan of Quit over chars: one verdict per " " met, and one more after
\* the loop
RECURSIVE ScanTyped(_, _, _, _, _)
ScanTyped(cs, inp, index, flag, typed) ==
    IF index = Len(cs) THEN Append(typed, flag)
    ELSE IF CharAt(cs, index) = " "
    THEN ScanTyped(cs, inp, index + 1, Good, Append(typed, flag))
    ELSE ScanTyped(cs, inp, index + 1,
                   IF inp[index] # Good THEN Bad ELSE flag, typed)

Typed(cs, inp) == ScanTyped(cs, inp, 0, Good, <<>>)

\* length_typed_words
LengthTypedWords(typed) ==
    Cardinality({index \in 1..Len(typed) : typed[index] = Good})

\* length_typed_chars: the sum of len(m.words[index]) over the Good verdicts
RECURSIVE LengthTypedChars(_, _)
LengthTypedChars(typed, ws) ==
    IF Len(typed) = 0 THEN 0
    ELSE LET n == Len(typed)
         IN  LengthTypedChars(SubSeq(typed, 1, n - 1), ws)
             + (IF typed[n] = Good THEN Len(ws[n]) ELSE 0)

\* m.words[index] is read for a Good verdict beyond the word list
QuitPanics(cs, ws, inp) ==
    \E index \in 1..Len(Typed(cs, inp)) :
        Typed(cs, inp)[index] = Good /\ index > Len(ws)

\* the sum of float64(m.inputs[index]) for index in range m.current
RECURSIVE SumInputs(_, _)
SumInputs(inp, cur) ==
    IF cur = 0 THEN 0 ELSE SumInputs(inp, cur - 1) + inp[cur - 1]

\* m.stats before Quit has computed anything: the empty string
NoStats == [empty |-> TRUE]

\* Stats with the WPM taken per second instead of per minute
StatsPerSecond(cs, ws, inp, cur, t) ==
    LET typed == Typed(cs, inp)
    IN  [empty |-> FALSE,
         words |-> LengthTypedWords(typed),
         seconds |-> FormatFloat(Elapsed(t), MsPerSecond, 100),
         wpm |-> FormatFloat(LengthTypedChars(typed, ws) * MsPerSecond,
                             5 * Elapsed(t), 1),
         accuracy |-> FormatFloat(SumInputs(inp, cur) * 100, cur, 10)]

\* the fields that Quit formats into m.stats
Stats(cs, ws, inp, cur, t) ==
    LET typed == Typed(cs, inp)
    IN  [empty |-> FALSE,
         words |-> LengthTypedWords(typed),
         seconds |-> FormatFloat(Elapsed(t), MsPerSecond, 100),
         wpm |-> FormatFloat(LengthTypedChars(typed, ws) * MsPerMinute,
                             5 * Elapsed(t), 1),
         accuracy |-> FormatFloat(SumInputs(inp, cur) * 100, cur, 10)]

\* QuitStats that returns before computing anything
QuitStatsNever(cs, ws, inp, cur, t, old) == old

\* m.stats after Quit(): left alone when the stopwatch is not running
QuitStats(cs, ws, inp, cur, t, old) ==
    IF ~Running(t) THEN old ELSE Stats(cs, ws, inp, cur, t)

(***************************************************************************)
(* Inputs of the model: the word lists handed to NewModel, the terminal    *)
(* widths of term.GetSize, and the key strings of tea.KeyMsg.String().     *)
(***************************************************************************)
\* the words a list is drawn from; a line of the word file may be empty
\* (strings.Split on "\n")
WordChoices == <<<<"a">>, <<"a", "b">>, <<>>>>

\* the word lists of n words
WordListsOfLen(n) ==
    {[i \in 1..n |-> WordChoices[f[i]]] : f \in [1..n -> 1..Len(WordChoices)]}

Widths == 0..MaxWidth

\* single characters, two pasted characters, the key string of an unknown
\* key type (empty), a named key and the two abort keys
KeyList == <<<<"a">>, <<"b">>, <<" ">>, Esc, CtrlC, Enter, <<"a", "b">>, <<>>>>

Keys == {KeyList[i] : i \in 1..Len(KeyList)}

NoMsg == [type |-> "none", key |-> <<>>]

(***************************************************************************)
(* NewModel(words): the state after construction, or a panic.              *)
(***************************************************************************)
\* panic("Couldn't get terminal size.")
PanicTermSize == "panic: Couldn't get terminal size."

\* panic("Model creation error : zero words provided")
PanicZeroWords == "panic: Model creation error : zero words provided"

\* a run-time panic of Update or Quit (index out of range)
PanicIndex == "panicked"

Panics == {PanicTermSize, PanicZeroWords, PanicIndex}

NewModelPanics(ws, w, err) ==
    err \/ Len(WordWrapString(Join(ws), w)) = 0

\* NewInputs that allocates one status too few
NewInputsShort(s) == [index \in 0..(Len(s) - 2) |-> Neutral]

NewInputs(s) == [index \in 0..(Len(s) - 1) |-> Neutral]

Init ==
    \E n \in 0..MaxWords, w \in Widths, err \in BOOLEAN :
      \E ws \in WordListsOfLen(n) :
        LET s == WordWrapString(Join(ws), w)
        IN  /\ words = ws
            /\ current = 0
            /\ quitting = FALSE
            /\ time = NewStopwatch
            /\ stats = NoStats
            /\ startPending = FALSE
            /\ tickPending = FALSE
            /\ quitPending = FALSE
            /\ msg = NoMsg
            /\ IF NewModelPanics(ws, w, err)
               THEN /\ pc = (IF err THEN PanicTermSize ELSE PanicZeroWords)
                    /\ chars = <<>>
                    /\ inputs = NewInputs(<<>>)
               ELSE /\ pc = "running"
                    /\ chars = s
                    /\ inputs = NewInputs(s)

(***************************************************************************)
(* Update(msg), one action per kind of message.                            *)
(***************************************************************************)
\* StatusFor without its else branch: a wrong key leaves the status Neutral
StatusForNoElse(cs, cur, key) ==
    IF <<CharAt(cs, cur)>> = key THEN Good ELSE Neutral

\* StatusFor with the two outcomes exchanged
StatusForSwapped(cs, cur, key) ==
    IF <<CharAt(cs, cur)>> = key THEN Bad ELSE Good

\* the status Update gives the character under the cursor
StatusFor(cs, cur, key) ==
    IF <<CharAt(cs, cur)>> = key THEN Good ELSE Bad

\* NextCurrent without the increment
NextCurrentStuck(cur) == cur

\* m.current++
NextCurrent(cur) == cur + 1

\* LastIndex taken one too small
LastIndexOffByOne(cs) == Len(cs) - 2

\* LastIndex taken one too large
LastIndexPastEnd(cs) == Len(cs)

\* len(m.chars)-1, the index at which Update ends the session
LastIndex(cs) == Len(cs) - 1

\* the key is consumed: strings.Contains(ok_inputs, key)
Accepted(key) == Contains(ok_inputs, key)

\* QuitAndReturn whose Quit never sets m.quitting
QuitAndReturnNoFlag(inp) ==
    IF Running(time) /\ QuitPanics(chars, words, inp)
    THEN /\ pc' = PanicIndex
         /\ UNCHANGED <<quitting, stats, time, quitPending>>
    ELSE /\ stats' = QuitStats(chars, words, inp, current, time, stats)
         /\ quitPending' = TRUE
         /\ UNCHANGED <<pc, time, quitting>>

\* QuitAndReturn whose Quit tests the stopwatch before it sets m.quitting
QuitAndReturnGuardFirst(inp) ==
    IF Running(time) /\ QuitPanics(chars, words, inp)
    THEN /\ pc' = PanicIndex
         /\ UNCHANGED <<quitting, stats, time, quitPending>>
    ELSE /\ quitting' = (quitting \/ Running(time))
         /\ stats' = QuitStats(chars, words, inp, current, time, stats)
         /\ quitPending' = TRUE
         /\ UNCHANGED <<pc, time>>

\* m.Quit() followed by return m, tea.Quit, on the inputs inp
QuitAndReturn(inp) ==
    IF Running(time) /\ QuitPanics(chars, words, inp)
    THEN /\ pc' = PanicIndex
         /\ UNCHANGED <<quitting, stats, time, quitPending>>
    ELSE /\ quitting' = TRUE
         /\ stats' = QuitStats(chars, words, inp, current, time, stats)
         /\ quitPending' = TRUE
         /\ UNCHANGED <<pc, time>>

KeyMsg(key) ==
    /\ pc = "running"
    /\ msg' = [type |-> "KeyMsg", key |-> key]
    /\ UNCHANGED <<chars, words, tickPending>>
    /\ IF key \in {CtrlC, Esc}
       THEN /\ QuitAndReturn(inputs)
            /\ UNCHANGED <<inputs, current, startPending>>
       ELSE IF Accepted(key)
       THEN IF current >= Len(chars)
            THEN \* m.chars[m.current] out of range
                 /\ pc' = PanicIndex
                 /\ UNCHANGED <<inputs, current, quitting, time, stats,
                                startPending, quitPending>>
            ELSE LET status == StatusFor(chars, current, key)
                     written == [inputs EXCEPT ![current] = status]
                 IN  /\ inputs' = written
                     /\ IF current = LastIndex(chars)
                        THEN \* the command of Start(), if any, is dropped
                             /\ QuitAndReturn(written)
                             /\ UNCHANGED <<current, startPending>>
                        ELSE /\ current' = NextCurrent(current)
                             /\ startPending' =
                                    (startPending
                                       \/ (current = 0 /\ ~Running(time)))
                             /\ UNCHANGED <<pc, quitting, time, stats,
                                            quitPending>>
       ELSE \* m.time.Update(msg) ignores a key message
            UNCHANGED <<pc, inputs, current, quitting, time, stats,
                        startPending, quitPending>>

\* the first message of the sequence of Start(): m.time.Update sets running,
\* and the sequence goes on to its tick command
StartStopMsg ==
    /\ pc = "running"
    /\ startPending
    /\ msg' = [type |-> "StartStopMsg", key |-> <<>>]
    /\ time' = [time EXCEPT !.running = TRUE]
    /\ startPending' = FALSE
    /\ tickPending' = TRUE
    /\ UNCHANGED <<pc, chars, words, inputs, current, quitting, stats,
                   quitPending>>

\* m.time.Update(TickMsg): a running stopwatch advances and ticks again
TickMsg ==
    /\ pc = "running"
    /\ tickPending
    /\ Elapsed(time) < MaxTicks * Interval
    /\ msg' = [type |-> "TickMsg", key |-> <<>>]
    /\ IF Running(time)
       THEN /\ time' = [time EXCEPT !.d = @ + Interval]
            /\ tickPending' = TRUE
       ELSE /\ time' = time
            /\ tickPending' = FALSE
    /\ UNCHANGED <<pc, chars, words, inputs, current, quitting, stats,
                   startPending, quitPending>>

\* the message of tea.Quit: the event loop returns without calling Update
QuitMsg ==
    /\ pc = "running"
    /\ quitPending
    /\ pc' = "exited"
    /\ UNCHANGED <<chars, words, inputs, current, quitting, time, stats,
                   startPending, tickPending, quitPending, msg>>

Next ==
    \/ \E i \in 1..Len(KeyList) : KeyMsg(KeyList[i])
    \/ StartStopMsg
    \/ TickMsg
    \/ QuitMsg

Spec == Init /\ [][Next]_vars

TypeOK ==
    /\ pc \in {"running", "exited"} \cup Panics
    /\ current \in 0..Len(chars)
    /\ DOMAIN inputs = 0..(Len(chars) - 1)
    /\ \A index \in DOMAIN inputs : inputs[index] \in Status
    /\ quitting \in BOOLEAN
    /\ time.running \in BOOLEAN /\ time.d \in 0..(MaxTicks * Interval)
    /\ startPending \in BOOLEAN /\ tickPending \in BOOLEAN
    /\ quitPending \in BOOLEAN

(***************************************************************************)
(* Vocabulary of the properties.                                           *)
(***************************************************************************)
Indices == DOMAIN inputs

GoodIndices == {index \in Indices : inputs[index] = Good}

DecidedIndices == {index \in Indices : inputs[index] \in {Good, Bad}}

AbortKeys == {CtrlC, Esc}

\* a single character of the input alphabet
AlphabetKey(key) ==
    Len(key) = 1 /\ \E i \in 1..Len(ok_inputs) : key[1] = ok_inputs[i]

\* the key is handled by a call of Quit that computes a summary: an abort
\* key, or an accepted key at the last index, while the stopwatch is running
QuitComputes(key) ==
    /\ KeyMsg(key)
    /\ Running(time)
    /\ key \in AbortKeys \/ (Accepted(key) /\ current = Len(chars) - 1)

\* the session state a key event may or may not touch
SessionState == <<current, inputs, quitting, stats, time, startPending>>

\* no word of the list is the empty string
NoEmptyWord == \A i \in 1..Len(words) : Len(words[i]) > 0

\* the offset in the buffer of words[i] (i from 1), each earlier word being
\* followed by one separator
RECURSIVE WordStart(_)
WordStart(i) ==
    IF i = 1 THEN 0 ELSE WordStart(i - 1) + Len(words[i - 1]) + 1

\* every character of words[i] in the buffer has status Good
WordAllGood(i) ==
    \A index \in WordStart(i)..(WordStart(i) + Len(words[i]) - 1) :
        index \in Indices /\ inputs[index] = Good

GoodWords == {i \in 1..Len(words) : WordAllGood(i)}

RECURSIVE SumLen(_)
SumLen(S) ==
    IF S = {} THEN 0
    ELSE LET i == CHOOSE x \in S : TRUE
         IN  Len(words[i]) + SumLen(S \ {i})

(***************************************************************************)
(* C1: while the session is not finished (quitting = FALSE), every index   *)
(* below current has status Good or Bad and every index from current on    *)
(* has status Neutral.                                                     *)
(***************************************************************************)
C1_CursorSplitsInputs ==
    ~quitting =>
        \A index \in Indices :
            /\ index < current => inputs[index] \in {Good, Bad}
            /\ index >= current => inputs[index] = Neutral

C1_Witness ==
    /\ ~quitting
    /\ current = 2
    /\ Len(chars) > 2
    /\ inputs[0] = Good
    /\ inputs[1] = Bad
    /\ msg.type = "KeyMsg"

(***************************************************************************)
(* C2: the cursor starts at 0, grows by one on every accepted keystroke,   *)
(* and when the session ends by consuming all characters (every index has  *)
(* been decided) its value is len(chars).                                  *)
(***************************************************************************)
C2_TerminalCursor ==
    /\ (msg = NoMsg => current = 0)
    /\ (quitting /\ DecidedIndices = Indices) => current = Len(chars)

(***************************************************************************)
(* C3: a key event whose key is neither a single character of the input    *)
(* alphabet nor an abort key leaves the session state unchanged: current,  *)
(* inputs, quitting, stats and the stopwatch.                              *)
(***************************************************************************)
C3_OtherKeysIgnored ==
    [][\A key \in Keys :
          (KeyMsg(key) /\ ~AlphabetKey(key) /\ key \notin AbortKeys)
              => UNCHANGED SessionState]_vars

C5_AbortSummarises ==
    [][\A key \in AbortKeys :
          (KeyMsg(key) /\ ~quitting /\ current >= 1 /\ current < Len(chars))
              => /\ quitting'
                 /\ stats' # NoStats
                 /\ stats'.accuracy =
                        FormatFloat(100 * Cardinality(GoodIndices),
                                    current, 10)]_vars

(***************************************************************************)
(* C6: the accuracy of a summary that Quit computes is 100 times the       *)
(* number of Good indices over the number of decided (Good or Bad)         *)
(* indices, however the session ends.                                      *)
(***************************************************************************)
C6_AccuracyOverDecided ==
    [][\A key \in Keys :
          QuitComputes(key) =>
              stats'.accuracy =
                  FormatFloat(100 * Cardinality(GoodIndices'),
                              Cardinality(DecidedIndices'), 10)]_vars

(***************************************************************************)
(* C7: an accepted key handled while current = len(chars)-1 writes the     *)
(* status of that index (Good if the key is the target character, Bad      *)
(* otherwise) and, in that same step, finishes the session and signals     *)
(* termination.                                                            *)
(***************************************************************************)
C7_LastKeyFinishes ==
    [][\A key \in Keys :
          (/\ KeyMsg(key)
           /\ key \notin AbortKeys
           /\ Accepted(key)
           /\ current = Len(chars) - 1)
              => /\ inputs'[current] =
                        (IF key = <<chars[Len(chars)]>> THEN Good ELSE Bad)
                 /\ quitting'
                 /\ quitPending']_vars

C7_Witness ==
    /\ pc = "running"
    /\ Len(chars) >= 2
    /\ current = Len(chars) - 1
    /\ msg = [type |-> "KeyMsg", key |-> <<chars[Len(chars)]>>]
    /\ inputs[current] = Good
    /\ quitting
    /\ quitPending
    /\ stats # NoStats

(***************************************************************************)
(* C8: the scan of Quit yields exactly len(words) verdicts, and a buffer   *)
(* typed entirely correctly reports len(words) good words.  Stated for the *)
(* lists of non-empty words, which the word source is meant to supply.     *)
(***************************************************************************)
C8_OneVerdictPerWord ==
    [][\A key \in Keys :
          (QuitComputes(key) /\ NoEmptyWord) =>
              /\ Len(Typed(chars, inputs')) = Len(words)
              /\ GoodIndices' = Indices => stats'.words = Len(words)]_vars

(***************************************************************************)
(* C9: in a summary that Quit computes, the number of good words is the    *)
(* number of words whose characters in the buffer all have status Good,    *)
(* and the good character count is the sum of the lengths of those words.  *)
(* Stated for the lists of non-empty words.                                *)
(***************************************************************************)
C9_WordVerdicts ==
    [][\A key \in Keys :
          (QuitComputes(key) /\ NoEmptyWord) =>
              /\ stats'.words = Cardinality(GoodWords')
              /\ LengthTypedChars(Typed(chars, inputs'), words)
                     = SumLen(GoodWords')]_vars

(***************************************************************************)
(* C10: end-of-session handling is idempotent: once the session has        *)
(* finished with a summary, no later message (a second abort key, another  *)
(* accepted key, a tick) changes that summary.                             *)
(***************************************************************************)
C10_SummaryFixedOnceFinished ==
    [][(quitting /\ stats # NoStats) => stats' = stats]_vars

(***************************************************************************)
(* C11: each entry of inputs is written at most once: once an index is     *)
(* Good or Bad, no later message changes it, also after the session has    *)
(* finished, and no entry goes back to Neutral.                            *)
(***************************************************************************)
C11_StatusWrittenOnce ==
    [][\A index \in Indices :
          inputs[index] # Neutral => inputs'[index] = inputs[index]]_vars

(***************************************************************************)
(* C12: the stopwatch is not running before the first accepted keystroke,  *)
(* and once the session has finished it is no longer running and its       *)
(* elapsed time no longer grows.                                           *)
(***************************************************************************)
C12_TimerStoppedAtFinish ==
    [][/\ (current = 0 /\ ~quitting) => ~Running(time)
       /\ quitting' => (~Running(time') /\ (quitting => Elapsed(time') = Elapsed(time)))]_vars

(***************************************************************************)
(* C13: the summary is empty whenever the session is not finished.         *)
(***************************************************************************)
C13_NoSummaryBeforeFinish ==
    ~quitting => stats = NoStats

C13_Witness ==
    /\ ~quitting
    /\ stats = NoStats
    /\ Running(time)
    /\ Elapsed(time) > 0
    /\ current >= 2
    /\ msg.type = "KeyMsg"

\* the state is the one NewModel left: no message has been handled yet
JustConstructed == msg = NoMsg

\* some terminal width wraps the joined words to a buffer of length zero
SomeWidthGivesNoBuffer ==
    \E w \in Widths : Len(WordWrapString(Join(words), w)) = 0

\* every terminal width wraps the joined words to a buffer of length zero
EveryWidthGivesNoBuffer ==
    \A w \in Widths : Len(WordWrapString(Join(words), w)) = 0

\* the session NewModel returns
FreshSession ==
    /\ Len(chars) > 0
    /\ \E w \in Widths : chars = WordWrapString(Join(words), w)
    /\ DOMAIN inputs = 0..(Len(chars) - 1)
    /\ \A index \in DOMAIN inputs : inputs[index] = Neutral
    /\ current = 0
    /\ ~quitting
    /\ stats = NoStats
    /\ ~Running(time)
    /\ Elapsed(time) = 0
    /\ ~startPending

(***************************************************************************)
(* C14 as stated: construction fails exactly when the word list is empty   *)
(* or the wrapped buffer has zero length, and otherwise yields a fresh     *)
(* session.                                                                *)
(***************************************************************************)
C14_FailsOnlyOnEmptyBuffer ==
    JustConstructed =>
        /\ (Len(words) = 0 \/ EveryWidthGivesNoBuffer) => pc \in Panics
        /\ pc \in Panics => SomeWidthGivesNoBuffer
        /\ pc \notin Panics => FreshSession

(***************************************************************************)
(* C14 amended: construction fails when the terminal size cannot be read,  *)
(* when the word list is empty or when the wrapped buffer has zero length; *)
(* otherwise it yields a session with as many Neutral statuses as the      *)
(* buffer has characters, cursor 0, not finished, no summary and a         *)
(* stopwatch that has not been started.                                    *)
(***************************************************************************)
C14_ConstructionFailsOrFresh ==
    JustConstructed =>
        /\ (Len(words) = 0 \/ EveryWidthGivesNoBuffer) => pc \in Panics
        /\ pc \in Panics => (pc = PanicTermSize \/ SomeWidthGivesNoBuffer)
        /\ pc = PanicZeroWords => SomeWidthGivesNoBuffer
        /\ pc \notin Panics => FreshSession

C14_Witness ==
    /\ JustConstructed
    /\ pc = "running"
    /\ Len(words) = 2
    /\ NoEmptyWord
    /\ Len(chars) = 3
    /\ FreshSession

(***************************************************************************)
(* C15: for every non-empty word list the buffer of a constructed session  *)
(* is as long as the words together plus one separator between each two    *)
(* neighbours, a line break standing for the separator it replaces.        *)
(***************************************************************************)
C15_BufferLength ==
    (pc = "running" /\ Len(words) > 0) =>
        Len(chars) = SumLen(1..Len(words)) + Len(words) - 1

(***************************************************************************)
(* C16: the WPM of a summary is goodCharCount / 5 / elapsedMinutes, with   *)
(* goodCharCount the summed lengths of the words with a Good verdict and   *)
(* the elapsed time read when Quit runs; it is printed with no decimals,   *)
(* so the printed value lies within half a unit of the quotient, and a     *)
(* zero elapsed time prints a non-finite value.                            *)
(***************************************************************************)
C16_WpmFormula ==
    [][\A key \in Keys :
          (QuitComputes(key) /\ pc' = "running") =>
              LET goodCharCount ==
                      LengthTypedChars(Typed(chars, inputs'), words)
                  ms == Elapsed(time)
                  err == stats'.wpm.val * 5 * ms - goodCharCount * MsPerMinute
              IN  IF ms = 0
                  THEN stats'.wpm.kind \in {"NaN", "+Inf"}
                  ELSE /\ stats'.wpm.kind = "num"
                       /\ 2 * err <= 5 * ms
                       /\ 2 * err > -(5 * ms)]_vars

C16_Witness ==
    /\ quitting
    /\ stats # NoStats
    /\ stats.wpm.kind = "num"
    /\ stats.wpm.val > 0
    /\ Elapsed(time) > 0

(***************************************************************************)
(* C17: the session becomes finished only by an abort key or by a key that *)
(* leaves every index Good or Bad; without an abort it is not finished     *)
(* while some index is still Neutral, and the keystroke that decides the   *)
(* last index finishes it.                                                 *)
(***************************************************************************)
C17_FinishedOnlyByAbortOrFullBuffer ==
    [][/\ (~quitting /\ quitting') =>
              /\ msg'.type = "KeyMsg"
              /\ msg'.key \in AbortKeys \/ DecidedIndices' = Indices
       /\ ~quitting => Cardinality(DecidedIndices) = current
       /\ ~quitting => Cardinality(DecidedIndices) < Len(chars)
       /\ (~quitting /\ DecidedIndices' = Indices) => quitting']_vars

C17_Witness ==
    /\ quitting
    /\ DecidedIndices = Indices
    /\ Len(chars) >= 2
    /\ msg.type = "KeyMsg"
    /\ msg.key \notin AbortKeys

(***************************************************************************)
(* C18: when Quit runs while the stopwatch is not running (never started,  *)
(* or started by a command whose message is still pending), the session is *)
(* finished all the same, and Quit leaves the cursor, every status and the *)
(* empty summary as they were.                                             *)
(***************************************************************************)
C18_QuitWithoutTimer ==
    [][\A key \in Keys :
          (KeyMsg(key) /\ ~Running(time)) =>
              /\ key \in AbortKeys =>
                     /\ quitting'
                     /\ current' = current
                     /\ inputs' = inputs
                     /\ stats' = stats
              /\ (Accepted(key) /\ key \notin AbortKeys
                    /\ current = Len(chars) - 1) =>
                     /\ quitting'
                     /\ current' = current
                     /\ \A index \in Indices \ {current} :
                            inputs'[index] = inputs[index]
                     /\ stats' = stats]_vars

C18_Witness ==
    /\ quitting
    /\ ~Running(time)
    /\ startPending
    /\ stats = NoStats
    /\ current >= 1
    /\ msg.type = "KeyMsg"
    /\ msg.key \in AbortKeys

(***************************************************************************)
(* C19: in every state of a constructed session, also after it finished,   *)
(* 0 <= current <= len(chars)-1 and len(inputs) = len(chars), so that      *)
(* chars[current] and inputs[current] exist.                               *)
(***************************************************************************)
C19_CursorInBounds ==
    pc \notin {PanicTermSize, PanicZeroWords} =>
        /\ pc # PanicIndex
        /\ 0 <= current
        /\ current <= Len(chars) - 1
        /\ DOMAIN inputs = 0..(Len(chars) - 1)

C19_Witness ==
    /\ pc = "running"
    /\ quitting
    /\ quitPending
    /\ current = Len(chars) - 1
    /\ current >= 1
    /\ inputs[current] = Bad
    /\ msg.type = "KeyMsg"
    /\ stats # NoStats

(***************************************************************************)
(* C20: whenever Quit gets past its stopwatch guard and computes a         *)
(* summary, current >= 1, whatever the buffer length and however the keys  *)
(* interleave with the start message of the stopwatch.                     *)
(***************************************************************************)
C20_ComputesOnlyAfterFirstKey ==
    [][\A key \in Keys : QuitComputes(key) => current >= 1]_vars

C20_Witness ==
    /\ quitting
    /\ stats # NoStats
    /\ current = 1
    /\ Len(chars) >= 2
    /\ msg.type = "KeyMsg"

====
